---- MODULE Spec2Model ----
(***************************************************************************)
(* Xendit payment plugin: the webhook endpoint POST /payments/xendit       *)
(* (XenditController.webhook), the callback verifier                       *)
(* (XenditService.verifyCallback) and the Order Store operations the       *)
(* webhook drives (findOneByCode, transitionToState, addPaymentToOrder).   *)
(*                                                                         *)
(* Strings whose content matters (tokens, description) are sequences of    *)
(* one-character strings; identifiers that are only compared for equality  *)
(* (order codes, method codes, state names) are plain strings.             *)
(***************************************************************************)
EXTENDS Integers, Sequences, FiniteSets, TLC

(* ------------------------------ bounds --------------------------------- *)

\* longest token the verifier is exercised with in SpecVerify
MaxTokLen == 2
\* number of webhook requests delivered in one behaviour of Spec
MaxRequests == 3
\* longest channel token an invoice is created for in SpecRoundTrip
MaxChannelLen == 3
\* webhook invocations that may be in flight at the same time
Invocations == {1, 2}

(* --------------------------- JavaScript values ------------------------- *)

\* `undefined` where a character-sequence string is expected
Undefined == <<"undefined">>
\* `undefined` where an identifier string is expected
UndefinedId == "undefined"

Alphabet == {"a", "b"}

RECURSIVE StringsUpTo(_)
StringsUpTo(n) ==
    IF n = 0 THEN {<< >>}
    ELSE LET shorter == StringsUpTo(n - 1)
         IN  shorter \cup {Append(s, c) : s \in shorter, c \in Alphabet}

\* the values of a `string | undefined` token
TokenValues == StringsUpTo(MaxTokLen) \cup {Undefined}

\* JavaScript truthiness of the values verifyCallback can return
Truthy(v) == v = "true"

\* String.prototype.split(sep)[0]: the part before the first separator
SplitHead(s, sep) ==
    IF \E k \in 1..Len(s) : s[k] = sep
    THEN LET first == CHOOSE k \in 1..Len(s) :
                          /\ s[k] = sep
                          /\ \A j \in 1..(k - 1) : s[j] # sep
         IN  SubSeq(s, 1, first - 1)
    ELSE s

(* --------------------------- program constants ------------------------- *)

missingHeaderErrorMessage == "Missing xendit-signature header"
signatureErrorMessage == "Error verifying Xendit webhook signature"
noPaymentIntentErrorMessage == "No payment intent in the event payload"

\* xenditPaymentMethodHandler.code
HandlerCode == "xendit"

BAD_REQUEST == 400
OK == 200

NoResponse == [status |-> 0, text |-> ""]
NoThrow == [name |-> "none", about |-> ""]

(* ------------------------------ verifier ------------------------------- *)

\* mutant: the `?.length &&` guard is dropped, so an unconfigured token
\* is compared like a configured one
VerifyCallbackNoLengthGuard(configured, callbackToken) ==
    [throws |-> FALSE,
     value  |-> IF configured # callbackToken THEN "true" ELSE "false"]

\* XenditService.verifyCallback:
\*   options?.callbackToken?.length && options?.callbackToken !== callbackToken
\* The value is the JavaScript value returned (as text); nothing is thrown.
VerifyCallback(configured, callbackToken) ==
    [throws |-> FALSE,
     value  |-> IF configured = Undefined THEN "undefined"
                ELSE IF Len(configured) = 0 THEN "0"
                ELSE IF configured # callbackToken THEN "true"
                ELSE "false"]

(* ------------------------- notification payloads ----------------------- *)

\* request.body when the request carries no payload
NoBody ==
    [present |-> FALSE, id |-> UndefinedId, external_id |-> UndefinedId,
     description |-> Undefined]

Notification(id, external_id, description) ==
    [present |-> TRUE, id |-> id, external_id |-> external_id,
     description |-> description]

\* the order the store holds, and the channel it belongs to
OrderCode == "ORD123"
OrderId == "55"
ChannelToken == <<"a">>

\* XenditCallbackRequest values delivered to the endpoint: the settlement of
\* the order, one for an unknown order code, one without `description`,
\* one without `external_id`
Bodies ==
    { NoBody,
      Notification("inv-1", OrderCode, <<"a", "_", "5", "5">>),
      Notification("inv-2", "ORD999", <<"a", "_", "7">>),
      Notification("inv-3", OrderCode, Undefined),
      Notification("inv-4", UndefinedId, <<"a", "_", "5", "5">>) }

\* values of the x-callback-token header
HeaderTokens == {Undefined, << >>, <<"a">>, <<"b">>}

\* values of options.callbackToken
ConfiguredTokens == {Undefined, << >>, <<"b">>}

\* PaymentMethod rows the repository may hold
XenditMethod == [code |-> "xendit-invoice", handler |-> HandlerCode]
OtherMethod == [code |-> "cash-on-delivery", handler |-> "dummy"]
MethodLists ==
    { << >>, <<OtherMethod>>, <<XenditMethod>>, <<OtherMethod, XenditMethod>> }

OrderStates == {"AddingItems", "ArrangingPayment", "PaymentSettled", "Cancelled"}

(* -------------------------------- state -------------------------------- *)

VARIABLES
    options,    \* XenditPluginOptions: [callbackToken]
    order,      \* the Order Store's order: [code, channel, state, payments]
    inv,        \* per webhook invocation: position, locals, calls, response
    requests,   \* webhook requests delivered so far
    probe       \* a direct call of XenditService.verifyCallback

vars == <<options, order, inv, requests, probe>>

NoMethod == [code |-> "none", handler |-> "none"]

NoOrder == [found |-> FALSE, id |-> "", state |-> ""]

IdleInvocation ==
    [pc |-> "idle", callbackToken |-> Undefined, body |-> NoBody,
     verify |-> "none", channelToken |-> Undefined, orderCode |-> UndefinedId,
     order |-> NoOrder, transition |-> "none", methods |-> << >>,
     method |-> NoMethod,
     add |-> "none", response |-> NoResponse, thrown |-> NoThrow,
     calls |-> << >>, prior |-> 0]

IdleProbe == [pc |-> "idle", callbackToken |-> Undefined, result |-> "none",
              threw |-> FALSE]

\* number of payments the order holds whose metadata is the notification b
PaymentsFor(b) ==
    Cardinality({k \in DOMAIN order.payments : order.payments[k].metadata = b})

Called(i, op) == \E k \in DOMAIN inv[i].calls : inv[i].calls[k].op = op

CallCount(i, op) ==
    Cardinality({k \in DOMAIN inv[i].calls : inv[i].calls[k].op = op})

Call(op, arg) == [op |-> op, arg |-> arg]

Init ==
    /\ options \in [callbackToken : ConfiguredTokens]
    /\ order \in [code : {OrderCode}, id : {OrderId}, channel : {ChannelToken},
                  state : {"AddingItems", "ArrangingPayment", "Cancelled"},
                  payments : {<< >>}]
    /\ inv = [i \in Invocations |-> IdleInvocation]
    /\ requests = 0
    /\ probe = IdleProbe

(* ------------------------ the webhook's decisions ---------------------- *)

\* mutant: the header check is skipped
HeaderNeverMissing(callbackToken) == FALSE

\* `!callbackToken` (undefined or the empty string)
HeaderMissing(callbackToken) ==
    callbackToken = Undefined \/ callbackToken = << >>

\* `!xenditPayment`
BodyMissing(body) == ~body.present

\* the Error thrown when findOneByCode returns nothing:
\* `Unable to find order ${orderCode}, unable to settle payment ${id}!`
OrderNotFoundPaymentOnly(orderCode, paymentId) ==
    [name |-> "Error", about |-> paymentId]

OrderNotFoundError(orderCode, paymentId) ==
    [name |-> "Error", about |-> orderCode]

\* mutant: the transition is requested whatever the order's state
AlwaysTransition(state) == TRUE

\* `order.state !== 'ArrangingPayment'`
NeedsTransition(state) == state # "ArrangingPayment"

\* mutant: the transition's result is not inspected
TransitionNeverRejected(result) == FALSE

\* `transitionToStateResult instanceof OrderStateTransitionError`
TransitionRejected(result) == result = "error"

\* mutant: the first PaymentMethod is taken whatever its handler
AnyMethod(m) == TRUE

\* `m.handler.code === xenditPaymentMethodHandler.code`
IsXenditMethod(m) == m.handler = HandlerCode

\* Array.prototype.find over the PaymentMethod rows
FindMethod(methods) ==
    LET hits == {k \in DOMAIN methods : IsXenditMethod(methods[k])}
    IN  IF hits = {} THEN NoMethod
        ELSE methods[CHOOSE k \in hits : \A j \in hits : k <= j]

\* mutant: 'Ok' is sent without looking at addPaymentToOrder's result
AlwaysOk(result) == [status |-> OK, text |-> "Ok"]

\* what the webhook sends once addPaymentToOrder has returned
AddPaymentResponse(result) ==
    IF result = "Order" THEN [status |-> OK, text |-> "Ok"] ELSE NoResponse

\* OrderService.findOneByCode(ctx, orderCode), ctx built from channelToken
FindOneByCode(channelToken, orderCode) ==
    IF order.code = orderCode /\ order.channel = channelToken
    THEN [found |-> TRUE, id |-> order.id, state |-> order.state]
    ELSE NoOrder

(* ------------------------------- actions ------------------------------- *)

Finish(i, r) == inv' = [inv EXCEPT ![i] = [r EXCEPT !.pc = "done"]]

\* a request arrives: header check, then the call of verifyCallback
Webhook(i, callbackToken, body) ==
    /\ inv[i].pc \in {"idle", "done"}
    /\ requests < MaxRequests
    /\ requests' = requests + 1
    /\ LET r == [IdleInvocation EXCEPT !.callbackToken = callbackToken,
                                       !.body = body,
                                       !.prior = PaymentsFor(body)]
           v == VerifyCallback(options.callbackToken, callbackToken)
       IN  IF HeaderMissing(callbackToken)
           THEN Finish(i, [r EXCEPT !.response =
                    [status |-> BAD_REQUEST, text |-> missingHeaderErrorMessage]])
           ELSE inv' = [inv EXCEPT ![i] =
                    [r EXCEPT !.pc = "verified",
                              !.verify = IF v.throws THEN "threw" ELSE v.value,
                              !.calls = <<Call("verifyCallback", "")>>]]
    /\ UNCHANGED <<options, order, probe>>

\* verifyCallback has returned: catch block, body check, channel token,
\* order code, then the calls of createContext and findOneByCode
AfterVerify(i) ==
    /\ inv[i].pc = "verified"
    /\ LET r == inv[i]
           b == [r EXCEPT !.calls = Append(r.calls, Call("request.body", ""))]
       IN  IF r.verify = "threw"
           THEN Finish(i, [r EXCEPT !.response =
                    [status |-> BAD_REQUEST, text |-> signatureErrorMessage]])
           ELSE IF BodyMissing(r.body)
           THEN Finish(i, [b EXCEPT !.response =
                    [status |-> BAD_REQUEST, text |-> noPaymentIntentErrorMessage]])
           ELSE IF r.body.description = Undefined
           THEN Finish(i, [b EXCEPT !.thrown =
                    [name |-> "TypeError", about |-> "description"]])
           ELSE inv' = [inv EXCEPT ![i] =
                    [b EXCEPT !.pc = "lookup",
                              !.channelToken = SplitHead(r.body.description, "_"),
                              !.orderCode = r.body.external_id,
                              !.calls = Append(b.calls, Call("createContext", ""))]]
    /\ UNCHANGED <<options, order, requests, probe>>

\* findOneByCode has returned
FindOrder(i) ==
    /\ inv[i].pc = "lookup"
    /\ LET r == inv[i]
           o == FindOneByCode(r.channelToken, r.orderCode)
           c == [r EXCEPT !.calls = Append(r.calls, Call("findOneByCode", r.orderCode)),
                          !.order = o]
       IN  IF ~o.found
           THEN Finish(i, [c EXCEPT !.thrown =
                    OrderNotFoundError(r.orderCode, r.body.id)])
           ELSE inv' = [inv EXCEPT ![i] =
                    [c EXCEPT !.pc = IF NeedsTransition(o.state)
                                     THEN "transition" ELSE "method"]]
    /\ UNCHANGED <<options, order, requests, probe>>

\* transitionToState(ctx, order.id, 'ArrangingPayment') returns: the Order
\* Store either performs the transition or reports OrderStateTransitionError
TransitionToState(i) ==
    /\ inv[i].pc = "transition"
    /\ \E result \in {"ok", "error"} :
         LET r == inv[i]
             c == [r EXCEPT !.calls = Append(r.calls,
                                Call("transitionToState", "ArrangingPayment")),
                            !.transition = result]
         IN  /\ order' = IF result = "ok"
                         THEN [order EXCEPT !.state = "ArrangingPayment"]
                         ELSE order
             /\ IF TransitionRejected(result)
                THEN Finish(i, c)
                ELSE inv' = [inv EXCEPT ![i] = [c EXCEPT !.pc = "method"]]
    /\ UNCHANGED <<options, requests, probe>>

\* getPaymentMethod: the repository's rows are read and searched
GetPaymentMethod(i) ==
    /\ inv[i].pc = "method"
    /\ \E methods \in MethodLists :
         LET r == inv[i]
             m == FindMethod(methods)
             c == [r EXCEPT !.calls = Append(r.calls, Call("find", "")),
                            !.methods = methods]
         IN  IF m = NoMethod
             THEN Finish(i, [c EXCEPT !.thrown =
                      [name |-> "InternalServerError",
                       about |-> "Could not find Xendit PaymentMethod"]])
             ELSE inv' = [inv EXCEPT ![i] =
                      [c EXCEPT !.pc = "add", !.method = m]]
    /\ UNCHANGED <<options, order, requests, probe>>

\* addPaymentToOrder(ctx, order.id, {method, metadata}) returns: the Order
\* Store records the payment and returns the Order, or reports an error.
\* It accepts a payment only for an order in ArrangingPayment; the order
\* then stays there or becomes PaymentSettled.
AddPaymentToOrder(i) ==
    /\ inv[i].pc = "add"
    /\ \E result \in {"Order", "error"}, after \in {"ArrangingPayment", "PaymentSettled"} :
         LET r == inv[i]
             c == [r EXCEPT !.calls = Append(r.calls,
                                Call("addPaymentToOrder", r.method.code)),
                            !.add = result,
                            !.response = AddPaymentResponse(result)]
         IN  /\ result = "Order" => order.state = "ArrangingPayment"
             /\ result = "error" => after = "ArrangingPayment"
             /\ order' = IF result = "Order"
                         THEN [order EXCEPT
                                 !.state = after,
                                 !.payments = Append(@,
                                     [method |-> r.method.code,
                                      handler |-> r.method.handler,
                                      metadata |-> r.body])]
                         ELSE order
             /\ Finish(i, c)
    /\ UNCHANGED <<options, requests, probe>>

Next ==
    \/ \E i \in Invocations, t \in HeaderTokens, b \in Bodies : Webhook(i, t, b)
    \/ \E i \in Invocations : AfterVerify(i)
    \/ \E i \in Invocations : FindOrder(i)
    \/ \E i \in Invocations : TransitionToState(i)
    \/ \E i \in Invocations : GetPaymentMethod(i)
    \/ \E i \in Invocations : AddPaymentToOrder(i)

Spec == Init /\ [][Next]_vars

(* ----------------- the verifier called on its own ---------------------- *)

InitVerify ==
    /\ options \in [callbackToken : TokenValues]
    /\ order = [code |-> OrderCode, id |-> OrderId, channel |-> ChannelToken,
                state |-> "AddingItems", payments |-> << >>]
    /\ inv = [i \in Invocations |-> IdleInvocation]
    /\ requests = 0
    /\ probe \in [pc : {"call"}, callbackToken : TokenValues,
                  result : {"none"}, threw : {FALSE}]

VerifyCallbackCall ==
    /\ probe.pc = "call"
    /\ LET v == VerifyCallback(options.callbackToken, probe.callbackToken)
       IN  probe' = [probe EXCEPT !.pc = "returned",
                                  !.result = v.value,
                                  !.threw = v.throws]
    /\ UNCHANGED <<options, order, inv, requests>>

NextVerify == VerifyCallbackCall

SpecVerify == InitVerify /\ [][NextVerify]_vars

(* ------------- the tenant encoding, from invoice to webhook ------------ *)

ChannelAlphabet == {"a", "_"}

RECURSIVE StringsOver(_, _)
StringsOver(alphabet, n) ==
    IF n = 0 THEN {<< >>}
    ELSE LET shorter == StringsOver(alphabet, n - 1)
         IN  shorter \cup {Append(s, c) : s \in shorter, c \in alphabet}

\* tokens a channel may carry (ctx.channel.token), with and without '_'
ChannelTokens == StringsOver(ChannelAlphabet, MaxChannelLen) \ {<< >>}

OrderIds == {"55", "7"}

\* the text an order id contributes to a string concatenation
IdText(id) == IF id = "55" THEN <<"5", "5">> ELSE <<"7">>

\* `ctx.channel.token + '_' + order.id`
CreateDescription(channelToken, orderId) ==
    channelToken \o <<"_">> \o IdText(orderId)

\* the invoice payload XenditService.createPayment builds for an order
CreatePaymentPayload(channelToken, o) ==
    [external_id |-> o.code,
     description |-> CreateDescription(channelToken, o.id)]

\* the notification Xendit sends for an invoice created from that payload
InvoiceNotification(payload) ==
    Notification("inv-1", payload.external_id, payload.description)

InitRoundTrip ==
    /\ options \in [callbackToken : ConfiguredTokens]
    /\ order \in [code : {OrderCode}, id : OrderIds, channel : ChannelTokens,
                  state : {"AddingItems"}, payments : {<< >>}]
    /\ inv = [i \in Invocations |-> IdleInvocation]
    /\ requests = 0
    /\ probe = IdleProbe

\* Xendit calls the webhook back for the invoice createPayment created for
\* the order in the order's channel
InvoiceCallback(i) ==
    \E t \in HeaderTokens :
        Webhook(i, t, InvoiceNotification(CreatePaymentPayload(order.channel, order)))

NextRoundTrip ==
    \/ \E i \in Invocations : InvoiceCallback(i)
    \/ \E i \in Invocations : AfterVerify(i)
    \/ \E i \in Invocations : FindOrder(i)
    \/ \E i \in Invocations : TransitionToState(i)
    \/ \E i \in Invocations : GetPaymentMethod(i)
    \/ \E i \in Invocations : AddPaymentToOrder(i)

SpecRoundTrip == InitRoundTrip /\ [][NextRoundTrip]_vars

(* ------------------------------- claims -------------------------------- *)

OrderStoreOps == {"findOneByCode", "transitionToState", "addPaymentToOrder"}

NoOrderStoreCall(i) ==
    \A k \in DOMAIN inv[i].calls : inv[i].calls[k].op \notin OrderStoreOps

TokenConfigured == options.callbackToken # Undefined /\ Len(options.callbackToken) > 0

\* C1: with a non-empty callbackToken configured, an invocation presenting a
\* different non-empty x-callback-token ends with 400 and the fixed
\* bad-signature message and issues no Order Store call.
C1_BadTokenRejected ==
    \A i \in Invocations :
        ( /\ inv[i].pc = "done"
          /\ TokenConfigured
          /\ inv[i].callbackToken # Undefined
          /\ inv[i].callbackToken # << >>
          /\ inv[i].callbackToken # options.callbackToken )
        => /\ inv[i].response =
                 [status |-> BAD_REQUEST, text |-> signatureErrorMessage]
           /\ NoOrderStoreCall(i)

\* C2: an invocation whose x-callback-token header is absent ends at once
\* with 400 and the fixed missing-header message; the verifier, the body and
\* the Order Store are never touched.
C2_MissingHeaderRejected ==
    \A i \in Invocations :
        (inv[i].pc # "idle" /\ inv[i].callbackToken = Undefined)
        => /\ inv[i].pc = "done"
           /\ inv[i].response =
                 [status |-> BAD_REQUEST, text |-> missingHeaderErrorMessage]
           /\ inv[i].calls = << >>
           /\ inv[i].thrown = NoThrow

C2_Witness ==
    \E i \in Invocations :
        /\ inv[i].pc = "done"
        /\ inv[i].callbackToken = Undefined
        /\ inv[i].body.present
        /\ inv[i].body.external_id = OrderCode
        /\ inv[i].response.status = BAD_REQUEST

VerifySucceeded == ~Truthy(probe.result) /\ ~probe.threw

\* C3 (as stated): verifyCallback succeeds (falsy value, nothing thrown) iff
\* callbackToken is not configured (absent) or equals the presented token.
C3_SuccessIffAbsentOrEqual ==
    probe.pc = "returned"
    => ( VerifySucceeded <=>
            \/ options.callbackToken = Undefined
            \/ options.callbackToken = probe.callbackToken )

\* C3 (amended): verifyCallback never throws, and succeeds iff callbackToken
\* is absent, is the empty string, or equals the presented token.
C3_SuccessIffAbsentEmptyOrEqual ==
    probe.pc = "returned"
    => /\ ~probe.threw
       /\ ( VerifySucceeded <=>
               \/ options.callbackToken = Undefined
               \/ options.callbackToken = << >>
               \/ options.callbackToken = probe.callbackToken )

C3_Witness ==
    /\ probe.pc = "returned"
    /\ options.callbackToken = << >>
    /\ probe.callbackToken = <<"a", "b">>
    /\ VerifySucceeded

IsTransitionCall(c) == c.op = "transitionToState"
IsAddCall(c) == c.op = "addPaymentToOrder"

\* C4: once an invocation has located its order: no transitionToState call
\* if the order was in ArrangingPayment; otherwise exactly one, targeting
\* ArrangingPayment, issued before any addPaymentToOrder call; and at most
\* one addPaymentToOrder call.
C4_TransitionBeforePayment ==
    \A i \in Invocations :
        inv[i].order.found =>
            LET calls == inv[i].calls
                trans == {k \in DOMAIN calls : IsTransitionCall(calls[k])}
                adds  == {k \in DOMAIN calls : IsAddCall(calls[k])}
            IN  /\ inv[i].order.state = "ArrangingPayment" => trans = {}
                /\ inv[i].order.state # "ArrangingPayment" =>
                      /\ Cardinality(trans) <= 1
                      /\ inv[i].pc # "transition" => Cardinality(trans) = 1
                      /\ \A k \in trans : calls[k].arg = "ArrangingPayment"
                      /\ \A a \in adds : \E k \in trans : k < a
                /\ Cardinality(adds) <= 1

C4_Witness ==
    \E i \in Invocations :
        /\ inv[i].pc = "done"
        /\ inv[i].order.found
        /\ inv[i].order.state = "AddingItems"
        /\ CallCount(i, "transitionToState") = 1
        /\ CallCount(i, "addPaymentToOrder") = 1
        /\ inv[i].add = "Order"

\* C5: an invocation that replays a notification for which the order already
\* holds one recorded payment leaves the order with exactly one payment for
\* that notification.
C5_ReplayKeepsOnePayment ==
    \A i \in Invocations :
        (inv[i].pc = "done" /\ inv[i].prior = 1)
        => PaymentsFor(inv[i].body) = 1

\* C6: the webhook sends 200 'Ok' iff addPaymentToOrder returned an Order in
\* that invocation; no other outcome sends a 2xx response.
C6_OkIffPaymentRecorded ==
    \A i \in Invocations :
        /\ (inv[i].response = [status |-> OK, text |-> "Ok"])
              <=> (inv[i].add = "Order")
        /\ inv[i].response.status \in 200..299 => inv[i].add = "Order"

C6_Witness ==
    \E i, j \in Invocations :
        /\ inv[i].pc = "done" /\ inv[i].add = "Order"
        /\ inv[i].response.status = OK
        /\ inv[j].pc = "done" /\ inv[j].add = "error"
        /\ inv[j].response = NoResponse

\* C7: when findOneByCode returns no order, the invocation issues no
\* transitionToState and no addPaymentToOrder call and ends with an Error
\* that names the order code looked up.
C7_OrderNotFound ==
    \A i \in Invocations :
        (Called(i, "findOneByCode") /\ ~inv[i].order.found)
        => /\ inv[i].pc = "done"
           /\ ~Called(i, "transitionToState")
           /\ ~Called(i, "addPaymentToOrder")
           /\ inv[i].thrown.name = "Error"
           /\ inv[i].thrown.about = inv[i].body.external_id
           /\ inv[i].response = NoResponse

C7_Witness ==
    \E i \in Invocations :
        /\ inv[i].pc = "done"
        /\ Called(i, "findOneByCode")
        /\ ~inv[i].order.found
        /\ inv[i].body.external_id = "ORD999"
        /\ inv[i].thrown.about = "ORD999"

HasXenditRow(methods) ==
    \E k \in DOMAIN methods : methods[k].handler = HandlerCode

\* C8: when no PaymentMethod row has handler code 'xendit', the invocation
\* throws the payment-method-missing error after the order was located and,
\* where needed, transitioned, and never calls addPaymentToOrder; every
\* addPaymentToOrder call, and so every recorded payment, carries the code
\* of a row whose handler code is 'xendit'.
C8_PaymentMethodMissing ==
    /\ \A k \in DOMAIN order.payments : order.payments[k].handler = HandlerCode
    /\ \A i \in Invocations :
        /\ (Called(i, "find") /\ ~HasXenditRow(inv[i].methods))
           => /\ inv[i].pc = "done"
              /\ inv[i].thrown.name = "InternalServerError"
              /\ inv[i].order.found
              /\ inv[i].order.state # "ArrangingPayment" => inv[i].transition = "ok"
              /\ ~Called(i, "addPaymentToOrder")
              /\ inv[i].add = "none"
        /\ \A k \in DOMAIN inv[i].calls :
              IsAddCall(inv[i].calls[k]) =>
                 \E m \in DOMAIN inv[i].methods :
                    /\ inv[i].methods[m].code = inv[i].calls[k].arg
                    /\ inv[i].methods[m].handler = HandlerCode

C8_Witness ==
    \E i, j \in Invocations :
        /\ inv[i].pc = "done"
        /\ inv[i].methods = <<OtherMethod>>
        /\ inv[i].transition = "ok"
        /\ inv[i].thrown.name = "InternalServerError"
        /\ inv[j].pc = "done"
        /\ inv[j].methods = <<OtherMethod, XenditMethod>>
        /\ Called(j, "addPaymentToOrder")

VerificationPassed(i) == inv[i].verify \notin {"none", "threw"} /\ ~Truthy(inv[i].verify)

Malformed(body) ==
    \/ ~body.present
    \/ body.description = Undefined
    \/ body.external_id = UndefinedId

\* C9: after verification passes, an absent or malformed payload (no body,
\* no description, no external_id) ends the invocation with 400, no Order
\* Store call and no exception.
C9_MalformedBodyRejected ==
    \A i \in Invocations :
        (inv[i].pc = "done" /\ VerificationPassed(i) /\ Malformed(inv[i].body))
        => /\ inv[i].response.status = BAD_REQUEST
           /\ NoOrderStoreCall(i)
           /\ inv[i].thrown = NoThrow

\* C10: a rejection by the Order Store stops the invocation without a throw:
\* after an OrderStateTransitionError neither getPaymentMethod nor
\* addPaymentToOrder is called; after addPaymentToOrder returns something
\* other than an Order the invocation just returns; no success response is
\* sent in either case.
C10_RejectionStopsQuietly ==
    \A i \in Invocations :
        /\ inv[i].transition = "error"
           => /\ inv[i].pc = "done"
              /\ inv[i].thrown = NoThrow
              /\ ~Called(i, "find")
              /\ ~Called(i, "addPaymentToOrder")
              /\ inv[i].response = NoResponse
        /\ inv[i].add = "error"
           => /\ inv[i].pc = "done"
              /\ inv[i].thrown = NoThrow
              /\ inv[i].response = NoResponse

C10_Witness ==
    \E i, j \in Invocations :
        /\ inv[i].pc = "done" /\ inv[i].transition = "error"
        /\ inv[j].pc = "done" /\ inv[j].add = "error"

\* C11: two invocations carrying the same notification, both received before
\* any payment for it was recorded and interleaved at their await points,
\* do not both have addPaymentToOrder accepted: the order never holds two
\* payments for that notification.
C11_ConcurrentSinglePayment ==
    \A i, j \in Invocations :
        ( /\ i # j
          /\ inv[i].body.present
          /\ inv[i].body = inv[j].body
          /\ inv[i].prior = 0
          /\ inv[j].prior = 0 )
        => /\ ~(inv[i].add = "Order" /\ inv[j].add = "Order")
           /\ PaymentsFor(inv[i].body) <= 1

\* C12: the channel token the webhook recovers from the description of an
\* invoice createPayment built (description.split('_')[0]) is the token of
\* the channel the invoice was created in, also when that token contains '_'.
C12_ChannelTokenRoundTrip ==
    \A i \in Invocations :
        (inv[i].pc \notin {"idle", "verified"} /\ inv[i].channelToken # Undefined)
        => inv[i].channelToken = order.channel

====
